---------------------------- MODULE Spec2Model ----------------------------
(***************************************************************************)
(* A model of lang_guess.py: character n-gram extraction (getNGrams), the  *)
(* frequency model of a file and of a corpus (getModelFromFile,            *)
(* createModel), the cosine similarity of two models (getCosSim) and the   *)
(* scoring of a corpus against a reference model (computeSimilarities).    *)
(*                                                                         *)
(* A term and an n-gram are sequences of one-character strings.  A model   *)
(* (a Python dict) is a function from a finite set of n-grams to counts.   *)
(* Logging is not modelled.                                                *)
(***************************************************************************)
EXTENDS Integers, Sequences, FiniteSets, TLC

VARIABLES
  pc,          \* position of the running function
  term,        \* getNGrams: the term argument
  n,           \* the n-gram size argument
  src,         \* what the path src names on the file system
  writeToDisc, \* createModel: the writeToDisc argument
  todo,        \* the qualifying files os.walk has not yielded yet
  visited,     \* the qualifying files already processed, in visiting order
  model,       \* createModel / computeSimilarities: the dict called model
  modelFile,   \* the lines of model_<lang>_<n>.txt, or NoFile
  refFile,     \* computeSimilarities: the lines of the reference model file
  ref,         \* computeSimilarities: the dict called ref
  simFile,     \* the lines of sim_<lang>_<n>.txt, or NoFile
  model1,      \* getCosSim: first argument
  model2,      \* getCosSim: second argument
  ret          \* how the call ended: Return(value) or Raise(exception)

vars == <<pc, term, n, src, writeToDisc, todo, visited, model,
          modelFile, refFile, ref, simFile, model1, model2, ret>>

(***************************************************************************)
(* Bounds of the model.                                                    *)
(***************************************************************************)
MaxTermLen == 3
MaxN == 4

Alphabet == {"a", "b"}

SEP == "#"

NoFile == "NoFile"
None == "None"
EmptyDict == [k \in {} |-> 0]

\* How a call ends: with a value, or with an exception no caller catches.
Return(v) == [exc |-> "none", val |-> v]
Raise(e) == [exc |-> e, val |-> None]

MaxFiles == 3
MaxSimFiles == 2
MaxCount == 3

\* All terms over Alphabet of length 0..MaxTermLen (the empty term included).
Terms == UNION {[1..len -> Alphabet] : len \in 0..MaxTermLen}

\* The texts a file may hold: nothing, "ab", "ab ab", "ba" and "a\nba ".
FileTexts ==
  { <<>>,
    <<"a", "b">>,
    <<"a", "b", " ", "a", "b">>,
    <<"b", "a">>,
    <<"a", "\n", "b", "a", " ">> }

\* A file of a directory tree: whether its name ends with '_prep.txt', and
\* its text.
FileEntries ==
  {[prep |-> TRUE, text |-> t] : t \in FileTexts}
    \cup {[prep |-> FALSE, text |-> <<"a", "b">>]}

\* What a path can name: a directory tree with up to maxFiles files (file i
\* is the path of the i-th file of the tree), a single file, or nothing.
Sources(maxFiles) ==
  {[kind |-> "dir", files |-> f] :
      f \in UNION {[1..k -> FileEntries] : k \in 0..maxFiles}}
    \cup {[kind |-> "file", text |-> t] : t \in FileTexts}
    \cup {[kind |-> "missing"]}

\* The n-gram sizes the corpus functions are run with.
NGramSizes == {1, 2, 3}

----------------------------------------------------------------------------
(***************************************************************************)
(* getNGrams                                                               *)
(***************************************************************************)
\* numSEP * SEP: the separator repeated.
RepeatSEP(numSEP) == [i \in 1..numSEP |-> SEP]

\* Mutant of getNGrams: the sliding window stops one position early.
getNGramsShortWindow(t, k) ==
  IF t = <<>> THEN <<>>
  ELSE IF Len(t) < k
    THEN <<RepeatSEP(k - Len(t)) \o t>>
    ELSE LET padded == IF k > 1 THEN <<SEP>> \o t \o <<SEP>> ELSE t
         IN  [idx \in 1..(Len(padded) - k) |-> SubSeq(padded, idx, idx + k - 1)]

\* Mutant of getNGrams: a short term is padded with one separator only.
getNGramsPadOne(t, k) ==
  IF t = <<>> THEN <<>>
  ELSE IF Len(t) < k
    THEN <<<<SEP>> \o t, t \o <<SEP>>>>
    ELSE LET padded == IF k > 1 THEN <<SEP>> \o t \o <<SEP>> ELSE t
         IN  [idx \in 1..(Len(padded) - k + 1) |-> SubSeq(padded, idx, idx + k - 1)]

getNGrams(t, k) ==
  IF t = <<>> THEN <<>>
  ELSE IF Len(t) < k
    THEN LET numSEP == k - Len(t)
         IN  <<RepeatSEP(numSEP) \o t, t \o RepeatSEP(numSEP)>>
    ELSE LET padded == IF k > 1 THEN <<SEP>> \o t \o <<SEP>> ELSE t
         IN  [idx \in 1..(Len(padded) - k + 1) |-> SubSeq(padded, idx, idx + k - 1)]

----------------------------------------------------------------------------
(***************************************************************************)
(* Arithmetic of IEEE-754 doubles, for math.sqrt, float * float and        *)
(* int / float of getCosSim.  A natural number of any size is a sequence   *)
(* of limbs in base 2^14, least significant first, without leading zero    *)
(* limbs (<<>> is 0).  A positive double is [m, e] with value m * 2^e and  *)
(* 2^52 <= m < 2^53; 0.0 is [m |-> <<>>, e |-> 0].  Every operation rounds *)
(* to nearest, ties to even.  Only the range of normal doubles is          *)
(* modelled: the counts of the model stay far from overflow and underflow. *)
(***************************************************************************)
LimbBits == 14
Base == 2^LimbBits
MantBits == 53

RECURSIVE BigNorm(_)
BigNorm(a) ==
  IF a = <<>> THEN a
  ELSE IF a[Len(a)] = 0 THEN BigNorm(SubSeq(a, 1, Len(a) - 1)) ELSE a

RECURSIVE BigFromNat(_)
BigFromNat(k) == IF k = 0 THEN <<>> ELSE <<k % Base>> \o BigFromNat(k \div Base)

Limb(a, i) == IF i <= Len(a) THEN a[i] ELSE 0

RECURSIVE BigAddC(_, _, _, _)
BigAddC(a, b, i, c) ==
  IF i > Len(a) /\ i > Len(b)
    THEN (IF c = 0 THEN <<>> ELSE <<c>>)
    ELSE LET x == Limb(a, i) + Limb(b, i) + c
         IN  <<x % Base>> \o BigAddC(a, b, i + 1, x \div Base)

BigAdd(a, b) == BigAddC(a, b, 1, 0)

\* a - b for a >= b.
RECURSIVE BigSubB(_, _, _, _)
BigSubB(a, b, i, borrow) ==
  IF i > Len(a) THEN <<>>
  ELSE LET x == a[i] - Limb(b, i) - borrow
       IN  <<x % Base>> \o BigSubB(a, b, i + 1, IF x < 0 THEN 1 ELSE 0)

BigSub(a, b) == BigNorm(BigSubB(a, b, 1, 0))

RECURSIVE BigLeqFrom(_, _, _)
BigLeqFrom(a, b, i) ==
  IF i = 0 THEN TRUE
  ELSE IF a[i] # b[i] THEN a[i] < b[i] ELSE BigLeqFrom(a, b, i - 1)

BigLeq(a, b) ==
  IF Len(a) # Len(b) THEN Len(a) < Len(b) ELSE BigLeqFrom(a, b, Len(a))

\* a * d + c for 0 <= d <= Base.
RECURSIVE BigMulSmallC(_, _, _, _)
BigMulSmallC(a, d, i, c) ==
  IF i > Len(a)
    THEN BigFromNat(c)
    ELSE LET x == a[i] * d + c
         IN  <<x % Base>> \o BigMulSmallC(a, d, i + 1, x \div Base)

BigMulSmall(a, d) == BigNorm(BigMulSmallC(a, d, 1, 0))

\* a * Base^k.
BigShiftLimbs(a, k) == IF a = <<>> THEN a ELSE [i \in 1..k |-> 0] \o a

RECURSIVE BigMulFrom(_, _, _)
BigMulFrom(a, b, i) ==
  IF i > Len(a) THEN <<>>
  ELSE BigAdd(BigMulSmall(b, a[i]), BigShiftLimbs(BigMulFrom(a, b, i + 1), 1))

BigMul(a, b) == BigMulFrom(a, b, 1)

\* a * 2^s.
BigShl(a, s) == BigShiftLimbs(BigMulSmall(a, 2^(s % LimbBits)), s \div LimbBits)

\* floor(a / 2^s).
BigShr(a, s) ==
  LET k == s \div LimbBits
      r == s % LimbBits
      len == Len(a) - k
  IN  IF len <= 0 THEN <<>>
      ELSE BigNorm([i \in 1..len |->
             (a[i + k] \div 2^r) + (Limb(a, i + k + 1) % 2^r) * 2^(LimbBits - r)])

RECURSIVE NatBitLen(_)
NatBitLen(k) == IF k = 0 THEN 0 ELSE 1 + NatBitLen(k \div 2)

BigBitLen(a) ==
  IF a = <<>> THEN 0 ELSE LimbBits * (Len(a) - 1) + NatBitLen(a[Len(a)])

BigOne == <<1>>
BigIsOdd(a) == a # <<>> /\ a[1] % 2 = 1

FZero == [m |-> <<>>, e |-> 0]

\* The double nearest to A * 2^e, or, with sticky, to a value just above
\* A * 2^e (A then has more than MantBits + 1 bits).
FRound(A, e, sticky) ==
  LET bl == BigBitLen(A)
  IN  IF A = <<>> THEN FZero
      ELSE IF bl <= MantBits
        THEN [m |-> BigShl(A, MantBits - bl), e |-> e - (MantBits - bl)]
        ELSE LET s    == bl - MantBits
                 q    == BigShr(A, s)
                 rem  == BigSub(A, BigShl(q, s))
                 half == BigShl(BigOne, s - 1)
                 up   == IF rem = half THEN sticky \/ BigIsOdd(q)
                                      ELSE ~BigLeq(rem, half)
                 q1   == IF up THEN BigAdd(q, BigOne) ELSE q
             IN  IF BigBitLen(q1) > MantBits
                   THEN [m |-> BigShr(q1, 1), e |-> e + s + 1]
                   ELSE [m |-> q1, e |-> e + s]

\* float(k) for an int k >= 0.
FFromNat(k) == FRound(BigFromNat(k), 0, FALSE)

\* floor(sqrt(k)) for an int k >= 0.
RECURSIVE NatSqrt(_)
NatSqrt(k) ==
  IF k = 0 THEN 0
  ELSE LET r == 2 * NatSqrt(k \div 4)
       IN  IF r + 1 <= k \div (r + 1) THEN r + 1 ELSE r

\* SqrtBits more binary digits of a square root, one per step: root and rem
\* with root^2 + rem = X become those of 4 * X.
SqrtBits == 54

RECURSIVE SqrtSteps(_, _)
SqrtSteps(s, steps) ==
  IF steps = 0 THEN s
  ELSE LET rem4  == BigMulSmall(s.rem, 4)
           trial == BigAdd(BigMulSmall(s.root, 4), BigOne)
           root2 == BigMulSmall(s.root, 2)
       IN  IF BigLeq(trial, rem4)
             THEN SqrtSteps([root |-> BigAdd(root2, BigOne),
                             rem |-> BigSub(rem4, trial)], steps - 1)
             ELSE SqrtSteps([root |-> root2, rem |-> rem4], steps - 1)

\* math.sqrt(k) for an int k >= 0.
sqrt(k) ==
  IF k = 0 THEN FZero
  ELSE LET r0 == NatSqrt(k)
           s  == SqrtSteps([root |-> BigFromNat(r0),
                            rem |-> BigFromNat(k - r0 * r0)], SqrtBits)
       IN  FRound(s.root, 0 - SqrtBits, s.rem # <<>>)

\* x * y for doubles x, y >= 0.
FMul(x, y) ==
  IF x.m = <<>> \/ y.m = <<>> THEN FZero
  ELSE FRound(BigMul(x.m, y.m), x.e + y.e, FALSE)

\* DivBits binary digits of a quotient, one per step.
DivBits == 56

RECURSIVE DivSteps(_, _, _)
DivSteps(s, d, steps) ==
  IF steps = 0 THEN s
  ELSE LET rem2 == BigMulSmall(s.rem, 2)
           q2   == BigMulSmall(s.q, 2)
       IN  IF BigLeq(d, rem2)
             THEN DivSteps([q |-> BigAdd(q2, BigOne), rem |-> BigSub(rem2, d)],
                           d, steps - 1)
             ELSE DivSteps([q |-> q2, rem |-> rem2], d, steps - 1)

\* x / y for doubles x >= 0 and y > 0.
FDiv(x, y) ==
  IF x.m = <<>> THEN FZero
  ELSE LET first == BigLeq(y.m, x.m)
           s0    == IF first THEN [q |-> BigOne, rem |-> BigSub(x.m, y.m)]
                             ELSE [q |-> <<>>, rem |-> x.m]
           s     == DivSteps(s0, y.m, DivBits)
       IN  FRound(s.q, x.e - y.e - DivBits, s.rem # <<>>)

\* The double 1.0.
FOne == FFromNat(1)

----------------------------------------------------------------------------
(***************************************************************************)
(* Dicts, and the text of numbers.                                         *)
(***************************************************************************)
\* d.get(k, default)
DictGet(d, k, default) == IF k \in DOMAIN d THEN d[k] ELSE default

\* d[k] = v
DictSet(d, k, v) == [x \in DOMAIN d \cup {k} |-> IF x = k THEN v ELSE d[x]]

Digits == <<"0", "1", "2", "3", "4", "5", "6", "7", "8", "9">>

\* str(k) for an int k >= 0: its decimal digits.
RECURSIVE IntToStr(_)
IntToStr(k) ==
  IF k < 10 THEN <<Digits[k + 1]>>
  ELSE IntToStr(k \div 10) \o <<Digits[(k % 10) + 1]>>

\* int(s) for a string of decimal digits.
RECURSIVE StrToInt(_)
StrToInt(s) ==
  IF s = <<>> THEN 0
  ELSE 10 * StrToInt(SubSeq(s, 1, Len(s) - 1))
         + ((CHOOSE i \in 1..10 : Digits[i] = s[Len(s)]) - 1)

----------------------------------------------------------------------------
(***************************************************************************)
(* str(x) for a double 0 <= x < 10^12: Python 2 formats a float with       *)
(* '%.12g', correctly rounded to 12 significant digits, and appends '.0'   *)
(* to a result that reads as an integer.  A string is the sequence of its  *)
(* characters.                                                             *)
(***************************************************************************)
SigDigits == 12

RECURSIVE BigPow10(_)
BigPow10(j) == IF j = 0 THEN BigOne ELSE BigMulSmall(BigPow10(j - 1), 10)

\* Quotient and remainder of a by d, 0 < d < Base, from limb i down.
RECURSIVE BigDivSmallFrom(_, _, _, _)
BigDivSmallFrom(a, d, i, r) ==
  IF i = 0 THEN [q |-> <<>>, r |-> r]
  ELSE LET cur  == r * Base + a[i]
           rest == BigDivSmallFrom(a, d, i - 1, cur % d)
       IN  [q |-> Append(rest.q, cur \div d), r |-> rest.r]

\* The decimal digits of a, most significant first.
RECURSIVE BigDigits(_)
BigDigits(a) ==
  IF a = <<>> THEN <<>>
  ELSE LET dm == BigDivSmallFrom(a, 10, Len(a), 0)
       IN  Append(BigDigits(BigNorm(dm.q)), Digits[dm.r + 1])

RECURSIVE StripZeros(_)
StripZeros(ds) ==
  IF Len(ds) > 1 /\ ds[Len(ds)] = "0" THEN StripZeros(SubSeq(ds, 1, Len(ds) - 1))
  ELSE ds

\* The least j >= from with low <= A * 10^(j - from).
RECURSIVE DecShift(_, _, _)
DecShift(A, low, from) ==
  IF BigLeq(low, A) THEN from ELSE DecShift(BigMulSmall(A, 10), low, from + 1)

Zeros(k) == [i \in 1..k |-> "0"]

\* The text of the digits ds (no trailing zero) at decimal exponent k:
\* ds[1].ds[2]... * 10^k.
FormatG(ds, k) ==
  IF k < -4 \/ k >= SigDigits
    THEN LET absk == IF k < 0 THEN 0 - k ELSE k
         IN  <<ds[1]>> \o (IF Len(ds) > 1 THEN <<".">> \o Tail(ds) ELSE <<>>)
               \o <<"e", IF k < 0 THEN "-" ELSE "+">>
               \o (IF absk < 10 THEN <<"0">> ELSE <<>>) \o IntToStr(absk)
    ELSE IF k >= 0
      THEN LET whole == IF Len(ds) >= k + 1 THEN SubSeq(ds, 1, k + 1)
                        ELSE ds \o Zeros(k + 1 - Len(ds))
               frac  == SubSeq(ds, k + 2, Len(ds))
           IN  whole \o <<".">> \o (IF frac = <<>> THEN <<"0">> ELSE frac)
      ELSE <<"0", ".">> \o Zeros(0 - k - 1) \o ds

StrFloat(x) ==
  IF x.m = <<>> THEN <<"0", ".", "0">>
  ELSE LET s    == IF x.e < 0 THEN 0 - x.e ELSE 0
           A    == IF x.e > 0 THEN BigShl(x.m, x.e) ELSE x.m
           j    == DecShift(A, BigShl(BigPow10(SigDigits - 1), s), 0)
           N    == BigMul(A, BigPow10(j))
           D0   == BigShr(N, s)
           rem  == BigSub(N, BigShl(D0, s))
           up   == /\ s > 0
                   /\ LET half == BigShl(BigOne, s - 1)
                      IN  IF rem = half THEN BigIsOdd(D0) ELSE ~BigLeq(rem, half)
           D1   == IF up THEN BigAdd(D0, BigOne) ELSE D0
           over == D1 = BigPow10(SigDigits)
           D    == IF over THEN BigPow10(SigDigits - 1) ELSE D1
           k    == (SigDigits - 1 - j) + (IF over THEN 1 ELSE 0)
       IN  FormatG(StripZeros(BigDigits(D)), k)

----------------------------------------------------------------------------
(***************************************************************************)
(* getModelFromFile                                                        *)
(***************************************************************************)
Whitespace == {" ", "\n"}

\* text.split(): the maximal runs of non-whitespace characters, in order.
\* cur is the run being read.
RECURSIVE SplitFrom(_, _, _)
SplitFrom(text, i, cur) ==
  IF i > Len(text)
    THEN (IF cur = <<>> THEN <<>> ELSE <<cur>>)
    ELSE IF text[i] \in Whitespace
      THEN (IF cur = <<>> THEN <<>> ELSE <<cur>>) \o SplitFrom(text, i + 1, <<>>)
      ELSE SplitFrom(text, i + 1, Append(cur, text[i]))

split(text) == SplitFrom(text, 1, <<>>)

\* for nGram in grams[i..]: d[nGram] = d.get(nGram, 0) + 1
RECURSIVE CountNGrams(_, _, _)
CountNGrams(d, grams, i) ==
  IF i > Len(grams) THEN d
  ELSE CountNGrams(DictSet(d, grams[i], DictGet(d, grams[i], 0) + 1), grams, i + 1)

\* for term in terms[i..]: count the n-grams of term
RECURSIVE CountTerms(_, _, _, _)
CountTerms(d, terms, i, k) ==
  IF i > Len(terms) THEN d
  ELSE CountTerms(CountNGrams(d, getNGrams(terms[i], k), 1), terms, i + 1, k)

\* getModelFromFile(fn, k) for a file fn holding text.
getModelFromFile(text, k) == CountTerms(EmptyDict, split(text), 1, k)

----------------------------------------------------------------------------
(***************************************************************************)
(* createModel                                                             *)
(***************************************************************************)
\* The files of a directory tree that pass the '_prep.txt' filter.
Qualifying(s) == {f \in DOMAIN s.files : s.files[f].prep}

\* Mutant of MergeModel: a file's count replaces the running count.
MergeModelOverwrite(m, fileModel) ==
  [g \in DOMAIN m \cup DOMAIN fileModel |->
     IF g \in DOMAIN fileModel THEN fileModel[g] ELSE m[g]]

\* for nGram, freq in fileModel.iteritems(): m[nGram] = m.get(nGram, 0) + freq
MergeModel(m, fileModel) ==
  [g \in DOMAIN m \cup DOMAIN fileModel |->
     DictGet(m, g, 0) + DictGet(fileModel, g, 0)]

\* sorted(m, key = m.get, reverse = True) over the keys S.  Python leaves
\* the order of keys of equal count to the dict's iteration order, which is
\* fixed for a given dict but unspecified: CHOOSE fixes one.
RECURSIVE SortedByFreq(_, _)
SortedByFreq(m, S) ==
  IF S = {} THEN <<>>
  ELSE LET top == CHOOSE g \in S : \A h \in S : m[h] <= m[g]
       IN  <<top>> \o SortedByFreq(m, S \ {top})

TopK == 500

\* The lines written to the model file: nGram + '\t' + str(m[nGram]) + '\n'
\* for the TopK most frequent n-grams.  A line is the pair of its fields.
ModelFileLines(m) ==
  LET keys == SortedByFreq(m, DOMAIN m)
      kept == SubSeq(keys, 1, IF Len(keys) < TopK THEN Len(keys) ELSE TopK)
  IN  [i \in 1..Len(kept) |-> <<kept[i], IntToStr(m[kept[i]])>>]

\* createModel up to the loop: the empty model, then the test of src.
createModelBegin ==
  /\ pc = "createModel"
  /\ IF src.kind = "dir"
       THEN /\ model' = EmptyDict
            /\ todo' = Qualifying(src)
            /\ pc' = "createModel.walk"
       ELSE /\ model' = IF src.kind = "file" THEN getModelFromFile(src.text, n)
                                            ELSE EmptyDict
            /\ todo' = {}
            /\ pc' = "createModel.write"
  /\ UNCHANGED <<term, n, src, writeToDisc, visited, modelFile,
                 refFile, ref, simFile, model1, model2, ret>>

\* One iteration of the loop over the qualifying files, which os.walk
\* yields in an order of its own.
createModelFile ==
  /\ pc = "createModel.walk"
  /\ \E f \in todo :
       /\ model' = MergeModel(model, getModelFromFile(src.files[f].text, n))
       /\ todo' = todo \ {f}
       /\ visited' = Append(visited, f)
  /\ UNCHANGED <<pc, term, n, src, writeToDisc, modelFile,
                 refFile, ref, simFile, model1, model2, ret>>

\* After the loop: the optional model file, and the return.
createModelEnd ==
  /\ \/ pc = "createModel.walk" /\ todo = {}
     \/ pc = "createModel.write"
  /\ modelFile' = IF writeToDisc THEN ModelFileLines(model) ELSE modelFile
  /\ ret' = Return(model)
  /\ pc' = "done"
  /\ UNCHANGED <<term, n, src, writeToDisc, todo, visited, model,
                 refFile, ref, simFile, model1, model2>>

----------------------------------------------------------------------------
(***************************************************************************)
(* getCosSim                                                               *)
(***************************************************************************)
\* Mutant of CosLoop1: denom1 sums the counts, not their squares.
RECURSIVE CosLoop1NoSquare(_, _, _, _)
CosLoop1NoSquare(m1, m2, S, acc) ==
  IF S = {} THEN acc
  ELSE LET term1     == CHOOSE g \in S : TRUE
           term2Freq == DictGet(m2, term1, 0)
       IN  CosLoop1NoSquare(m1, m2, S \ {term1},
                    [num    |-> acc.num + m1[term1] * term2Freq,
                     denom1 |-> acc.denom1 + m1[term1],
                     denom2 |-> acc.denom2 + term2Freq * term2Freq])

\* The first loop, over the keys S of model1 not yet visited.
RECURSIVE CosLoop1(_, _, _, _)
CosLoop1(m1, m2, S, acc) ==
  IF S = {} THEN acc
  ELSE LET term1     == CHOOSE g \in S : TRUE
           term2Freq == DictGet(m2, term1, 0)
       IN  CosLoop1(m1, m2, S \ {term1},
                    [num    |-> acc.num + m1[term1] * term2Freq,
                     denom1 |-> acc.denom1 + m1[term1] * m1[term1],
                     denom2 |-> acc.denom2 + term2Freq * term2Freq])

\* The second loop, over the keys S of model2 that model1 lacks.
RECURSIVE CosLoop2(_, _, _)
CosLoop2(m2, S, acc) ==
  IF S = {} THEN acc
  ELSE LET term2 == CHOOSE g \in S : TRUE
       IN  CosLoop2(m2, S \ {term2},
                    [acc EXCEPT !.denom2 = acc.denom2 + m2[term2] * m2[term2]])

ZeroSums == [num |-> 0, denom1 |-> 0, denom2 |-> 0]

\* Mutant of CosSums: the second loop is left out.
CosSumsNoUnion(m1, m2) == CosLoop1(m1, m2, DOMAIN m1, ZeroSums)

\* num, denom1 and denom2 as the two loops leave them.
CosSums(m1, m2) ==
  CosLoop2(m2, DOMAIN m2 \ DOMAIN m1, CosLoop1(m1, m2, DOMAIN m1, ZeroSums))

\* num / ( sqrt( denom1 ) * sqrt( denom2 ) ): Python raises
\* ZeroDivisionError when the divisor is 0.0.
getCosSim(m1, m2) ==
  LET s     == CosSums(m1, m2)
      denom == FMul(sqrt(s.denom1), sqrt(s.denom2))
  IN  IF denom = FZero THEN Raise("ZeroDivisionError")
      ELSE Return(FDiv(FFromNat(s.num), denom))

getCosSimCall ==
  /\ pc = "getCosSim"
  /\ ret' = getCosSim(model1, model2)
  /\ pc' = IF ret'.exc = "none" THEN "done" ELSE "raised"
  /\ UNCHANGED <<term, n, src, writeToDisc, todo, visited, model,
                 modelFile, refFile, ref, simFile, model1, model2>>

getNGramsCall ==
  /\ pc = "getNGrams"
  /\ ret' = Return(getNGrams(term, n))
  /\ pc' = "done"
  /\ UNCHANGED <<term, n, src, writeToDisc, todo, visited, model,
                 modelFile, refFile, ref, simFile, model1, model2>>

----------------------------------------------------------------------------
(***************************************************************************)
(* computeSimilarities                                                     *)
(***************************************************************************)
\* for line in lines[i..]: nGram, freq = line.split(); d[nGram] = int(freq)
RECURSIVE ReadRef(_, _, _)
ReadRef(d, lines, i) ==
  IF i > Len(lines) THEN d
  ELSE ReadRef(DictSet(d, lines[i][1], StrToInt(lines[i][2])), lines, i + 1)

\* Mutant of CountKeys: the file's count is added, as createModel adds it.
CountKeysWithFreq(m, fileModel) ==
  [g \in DOMAIN m \cup DOMAIN fileModel |->
     DictGet(m, g, 0) + DictGet(fileModel, g, 0)]

\* for nGram in fileModel: m[nGram] = m.get(nGram, 0) + 1
CountKeys(m, fileModel) ==
  [g \in DOMAIN m \cup DOMAIN fileModel |->
     DictGet(m, g, 0) + (IF g \in DOMAIN fileModel THEN 1 ELSE 0)]

\* computeSimilarities up to the loop: ref is read, the output file is
\* opened, and src is tested.  For a src that is no directory the test is
\* os.path.isFile( src ), and os.path has no attribute isFile.
computeSimilaritiesBegin ==
  /\ pc = "computeSimilarities"
  /\ ref' = ReadRef(EmptyDict, refFile, 1)
  /\ simFile' = <<>>
  /\ model' = EmptyDict
  /\ IF src.kind = "dir"
       THEN /\ todo' = Qualifying(src)
            /\ pc' = "computeSimilarities.walk"
            /\ ret' = ret
       ELSE /\ todo' = {}
            /\ pc' = "raised"
            /\ ret' = Raise("AttributeError")
  /\ UNCHANGED <<term, n, src, writeToDisc, visited, modelFile, refFile,
                 model1, model2>>

\* One iteration of the loop over the qualifying files: the file's n-grams
\* are counted into model, and the file's line is written unless getCosSim
\* raises.
computeSimilaritiesFile ==
  /\ pc = "computeSimilarities.walk"
  /\ \E f \in todo :
       LET counted == CountKeys(model, getModelFromFile(src.files[f].text, n))
           sim     == getCosSim(ref, counted)
       IN  /\ model' = counted
           /\ todo' = todo \ {f}
           /\ visited' = Append(visited, f)
           /\ IF sim.exc = "none"
                THEN /\ simFile' = Append(simFile, <<f, StrFloat(sim.val)>>)
                     /\ UNCHANGED <<pc, ret>>
                ELSE /\ pc' = "raised"
                     /\ ret' = sim
                     /\ UNCHANGED simFile
  /\ UNCHANGED <<term, n, src, writeToDisc, modelFile, refFile, ref,
                 model1, model2>>

\* After the loop: simFile.close( ), and the return.
computeSimilaritiesEnd ==
  /\ pc = "computeSimilarities.walk"
  /\ todo = {}
  /\ pc' = "done"
  /\ ret' = Return(None)
  /\ UNCHANGED <<term, n, src, writeToDisc, todo, visited, model, modelFile,
                 refFile, ref, simFile, model1, model2>>

----------------------------------------------------------------------------
(***************************************************************************)
(* Specifications: one per function, each started on every input of a      *)
(* small set.                                                              *)
(***************************************************************************)
\* getNGrams on every term and size.
InitNGrams ==
  /\ pc = "getNGrams"
  /\ term \in Terms
  /\ n \in 1..MaxN
  /\ src = [kind |-> "missing"]
  /\ writeToDisc = FALSE
  /\ todo = {}
  /\ visited = <<>>
  /\ model = EmptyDict
  /\ modelFile = NoFile
  /\ refFile = NoFile
  /\ ref = EmptyDict
  /\ simFile = NoFile
  /\ model1 = EmptyDict
  /\ model2 = EmptyDict
  /\ ret = None

SpecNGrams == InitNGrams /\ [][getNGramsCall]_vars

\* createModel on every source.
InitBuild ==
  /\ pc = "createModel"
  /\ term = <<>>
  /\ n \in NGramSizes
  /\ src \in Sources(MaxFiles)
  /\ writeToDisc \in BOOLEAN
  /\ todo = {}
  /\ visited = <<>>
  /\ model = EmptyDict
  /\ modelFile = NoFile
  /\ refFile = NoFile
  /\ ref = EmptyDict
  /\ simFile = NoFile
  /\ model1 = EmptyDict
  /\ model2 = EmptyDict
  /\ ret = None

NextBuild == createModelBegin \/ createModelFile \/ createModelEnd

SpecBuild == InitBuild /\ [][NextBuild]_vars

\* The models over two n-grams with counts up to MaxCount.  A count of 0
\* is one a reference model file can hold.
Keys == {<<"a">>, <<"b">>}
Models == UNION {[S -> 0..MaxCount] : S \in SUBSET Keys}

\* getCosSim on every pair of models.
InitCos ==
  /\ pc = "getCosSim"
  /\ term = <<>>
  /\ n = 1
  /\ src = [kind |-> "missing"]
  /\ writeToDisc = FALSE
  /\ todo = {}
  /\ visited = <<>>
  /\ model = EmptyDict
  /\ modelFile = NoFile
  /\ refFile = NoFile
  /\ ref = EmptyDict
  /\ simFile = NoFile
  /\ model1 \in Models
  /\ model2 \in Models
  /\ ret = None

SpecCos == InitCos /\ [][getCosSimCall]_vars

\* The reference model files: those createModel writes for a text.
RefTexts == { <<>>, <<"a", "b">>, <<"a", "\n", "b", "a", " ">> }
RefFiles(k) == {ModelFileLines(getModelFromFile(t, k)) : t \in RefTexts}

SimSizes == {1, 2}

\* computeSimilarities on every reference model file and source.
InitSim ==
  /\ pc = "computeSimilarities"
  /\ term = <<>>
  /\ n \in SimSizes
  /\ src \in Sources(MaxSimFiles)
  /\ writeToDisc = FALSE
  /\ todo = {}
  /\ visited = <<>>
  /\ model = EmptyDict
  /\ modelFile = NoFile
  /\ refFile \in RefFiles(n)
  /\ ref = EmptyDict
  /\ simFile = NoFile
  /\ model1 = EmptyDict
  /\ model2 = EmptyDict
  /\ ret = None

NextSim ==
  computeSimilaritiesBegin \/ computeSimilaritiesFile \/ computeSimilaritiesEnd

SpecSim == InitSim /\ [][NextSim]_vars

----------------------------------------------------------------------------
(***************************************************************************)
(* Properties.                                                             *)
(***************************************************************************)
Ended == pc \in {"done", "raised"}

\* C1: for a non-empty term with len(term) >= n, getNGrams returns, in
\* order, the len(term) + 2*(n>1) - n + 1 windows of length n of the padded
\* term, which is '#' + term + '#' for n > 1 and the term for n = 1.
C1_SlidingWindows ==
  (pc = "done" /\ term # <<>> /\ Len(term) >= n) =>
    LET padded == IF n > 1 THEN <<SEP>> \o term \o <<SEP>> ELSE term
        count  == Len(term) + (IF n > 1 THEN 2 ELSE 0) - n + 1
    IN  /\ ret.exc = "none"
        /\ Len(ret.val) = count
        /\ \A i \in 1..count :
             /\ Len(ret.val[i]) = n
             /\ \A j \in 1..n : ret.val[i][j] = padded[i + j - 1]

C1_Witness ==
  /\ pc = "done"
  /\ term = <<"a", "b", "a">>
  /\ n = 2
  /\ ret.val = << <<"#", "a">>, <<"a", "b">>, <<"b", "a">>, <<"a", "#">> >>

\* The n-gram g is the term t with pad separators on the left (left) or
\* on the right (~left).
IsPadded(g, t, pad, left) ==
  /\ Len(g) = Len(t) + pad
  /\ \A i \in 1..Len(g) :
       IF left THEN g[i] = (IF i <= pad THEN SEP ELSE t[i - pad])
               ELSE g[i] = (IF i <= Len(t) THEN t[i] ELSE SEP)

\* C2 as stated: for every term with len(term) < n, getNGrams returns
\* exactly two n-grams of length n, the term left-padded and the term
\* right-padded with '#'.
C2_EveryShortTerm ==
  (pc = "done" /\ Len(term) < n) =>
    /\ Len(ret.val) = 2
    /\ IsPadded(ret.val[1], term, n - Len(term), TRUE)
    /\ IsPadded(ret.val[2], term, n - Len(term), FALSE)

\* C2, amended: for every non-empty term with len(term) < n, getNGrams
\* returns exactly two n-grams of length n, the term left-padded and the
\* term right-padded with '#'; for the empty term it returns the empty list.
C2_NonEmptyShortTerm ==
  /\ (pc = "done" /\ term # <<>> /\ Len(term) < n) =>
       /\ Len(ret.val) = 2
       /\ Len(ret.val[1]) = n
       /\ Len(ret.val[2]) = n
       /\ IsPadded(ret.val[1], term, n - Len(term), TRUE)
       /\ IsPadded(ret.val[2], term, n - Len(term), FALSE)
  /\ (pc = "done" /\ term = <<>>) => ret.val = <<>>

C2_Witness ==
  /\ pc = "done"
  /\ term = <<"a">>
  /\ n = 3
  /\ ret.val = << <<"#", "#", "a">>, <<"a", "#", "#">> >>

\* The text of file f of the directory tree src.
TextOf(f) == src.files[f].text

\* The sum over the files F of the count of n-gram g in the file's model.
RECURSIVE SumOfFileCounts(_, _)
SumOfFileCounts(g, F) ==
  IF F = {} THEN 0
  ELSE LET f == CHOOSE x \in F : TRUE
       IN  DictGet(getModelFromFile(TextOf(f), n), g, 0)
             + SumOfFileCounts(g, F \ {f})

\* The n-grams of the files F.
NGramsOfFiles(F) == UNION {DOMAIN getModelFromFile(TextOf(f), n) : f \in F}

Visited == {visited[i] : i \in 1..Len(visited)}

\* C3: whatever the order in which createModel visits the qualifying files
\* of a directory, the count of each n-gram in the aggregate is the sum of
\* its counts in the files visited, and the model returned is that of all
\* the qualifying files.
C3_OrderIndependent ==
  (src.kind = "dir" /\ pc \in {"createModel.walk", "done"}) =>
    /\ DOMAIN model = NGramsOfFiles(Visited)
    /\ \A g \in DOMAIN model : model[g] = SumOfFileCounts(g, Visited)
    /\ pc = "done" => (Visited = Qualifying(src) /\ ret = Return(model))

C3_Witness ==
  /\ pc = "done"
  /\ src.kind = "dir"
  /\ n = 2
  /\ Len(visited) = 3
  /\ visited[1] > visited[2]
  /\ <<"a", "b">> \in DOMAIN ret.val
  /\ ret.val[<<"a", "b">>] = 3
  /\ <<"b", "a">> \in DOMAIN ret.val

AllZero(m) == \A g \in DOMAIN m : m[g] = 0

\* C4: when either model is empty or all its counts are 0, getCosSim fails
\* with a DegenerateModelError or returns 0; no division by zero escapes.
C4_DegenerateHandled ==
  (Ended /\ (AllZero(model1) \/ AllZero(model2))) =>
    \/ ret = Raise("DegenerateModelError")
    \/ ret = Return(FZero)

\* The sum of the squared counts of a model over the keys S.
RECURSIVE SumOfSquares(_, _)
SumOfSquares(m, S) ==
  IF S = {} THEN 0
  ELSE LET g == CHOOSE x \in S : TRUE
       IN  m[g] * m[g] + SumOfSquares(m, S \ {g})

\* C5: for non-empty models, getCosSim(model1, model2) is
\* getCosSim(model2, model1): the numerator is the same, and the two
\* squared magnitudes, each over all the keys of its model, change places.
C5_Symmetric ==
  (Ended /\ model1 # EmptyDict /\ model2 # EmptyDict) =>
    LET a == CosSums(model1, model2)
        b == CosSums(model2, model1)
    IN  /\ ret = getCosSim(model2, model1)
        /\ a.num = b.num
        /\ a.denom1 = b.denom2
        /\ a.denom2 = b.denom1
        /\ a.denom1 = SumOfSquares(model1, DOMAIN model1)
        /\ a.denom2 = SumOfSquares(model2, DOMAIN model2)

C5_Witness ==
  /\ pc = "done"
  /\ model1 = [g \in {<<"a">>} |-> 1]
  /\ model2 = [g \in Keys |-> 2]
  /\ ret.exc = "none"
  /\ ret.val # FOne

Positive(m) == m # EmptyDict /\ \A g \in DOMAIN m : m[g] > 0

\* C6 as stated: getCosSim(M, M) == 1.0 for a non-empty model M with
\* positive counts.
C6_ExactlyOne ==
  (Ended /\ model1 = model2 /\ Positive(model1)) => ret = Return(FOne)

\* x <= y for positive doubles.
FLeq(x, y) == IF x.e # y.e THEN x.e < y.e ELSE BigLeq(x.m, y.m)

\* 1 - 2^-51 and 1 + 2^-51.
NearOneLow == [m |-> BigSub(BigShl(BigOne, MantBits), <<4>>), e |-> 0 - MantBits]
NearOneHigh == [m |-> BigAdd(BigShl(BigOne, MantBits - 1), <<2>>), e |-> 1 - MantBits]

\* C6, amended: for a non-empty model M with positive counts, the sums of
\* getCosSim(M, M) are equal, num = denom1 = denom2 (so num squared is
\* denom1 * denom2), and the float returned is within 2^-51 of 1.0; it is
\* 1.0 only when sqrt(denom1) * sqrt(denom2) rounds to num.
C6_NearOne ==
  (Ended /\ model1 = model2 /\ Positive(model1)) =>
    LET s == CosSums(model1, model2)
    IN  /\ s.num > 0
        /\ s.num = s.denom1
        /\ s.num = s.denom2
        /\ ret.exc = "none"
        /\ FLeq(NearOneLow, ret.val)
        /\ FLeq(ret.val, NearOneHigh)
        /\ (ret.val = FOne) <=> (FMul(sqrt(s.denom1), sqrt(s.denom2)) = FFromNat(s.num))

C6_Witness ==
  /\ pc = "done"
  /\ model1 = [g \in Keys |-> 1]
  /\ model2 = model1
  /\ ret.exc = "none"
  /\ ret.val # FOne

\* C7: createModel on a path that is neither a directory nor a file fails
\* with a ResourceError; it returns no model and writes no model file.
C7_MissingSourceFails ==
  (Ended /\ src.kind = "missing") =>
    /\ ret = Raise("ResourceError")
    /\ modelFile = NoFile

\* C8: computeSimilarities on a single file completes, and the output holds
\* exactly one record, whose score is the cosine similarity of the
\* reference model and the model built from the file.
C8_SingleFileScored ==
  (Ended /\ src.kind = "file") =>
    LET sim == getCosSim(ref, CountKeys(EmptyDict, getModelFromFile(src.text, n)))
    IN  /\ pc = "done"
        /\ Len(simFile) = 1
        /\ sim.exc = "none"
        /\ simFile[1][2] = StrFloat(sim.val)

\* The number of the first k visited files whose model holds n-gram g.
FilesHolding(g, k) ==
  Cardinality({i \in 1..k : g \in DOMAIN getModelFromFile(TextOf(visited[i]), n)})

\* The candidate model after the first k visited files.
CumulativeModel(k) ==
  [g \in NGramsOfFiles({visited[i] : i \in 1..k}) |-> FilesHolding(g, k)]

\* C9: over a directory, one record is written per qualifying file, in
\* visiting order, and the k-th record holds the score of the reference
\* model against the candidate model accumulated over files 1..k.
C9_OneCumulativeRecordPerFile ==
  (src.kind = "dir" /\ pc \in {"computeSimilarities.walk", "done", "raised"}) =>
    /\ Len(simFile) = Len(visited)
    /\ \A k \in 1..Len(simFile) :
         LET sim == getCosSim(ref, CumulativeModel(k))
         IN  sim.exc = "none" /\ simFile[k] = <<visited[k], StrFloat(sim.val)>>
    /\ Ended => Visited = Qualifying(src)

\* C10: after k files, the candidate model of computeSimilarities counts,
\* for each n-gram, the files among them that hold it.
C10_CountsFiles ==
  (src.kind = "dir" /\ pc \in {"computeSimilarities.walk", "done", "raised"}) =>
    model = CumulativeModel(Len(visited))

\* A state where that count is not the number of occurrences createModel
\* counts for the same files.
C10_Witness ==
  /\ pc = "computeSimilarities.walk"
  /\ src.kind = "dir"
  /\ n = 2
  /\ Len(visited) = 2
  /\ <<"a", "b">> \in DOMAIN model
  /\ model[<<"a", "b">>] = 2
  /\ SumOfFileCounts(<<"a", "b">>, Visited) = 3

=============================================================================
